---- MODULE Spec2Model ----
(***************************************************************************)
(* Model of src/app.py: the Streamlit voice translator.  The state is the  *)
(* session state (st.session_state), the operations are the button         *)
(* handlers listen_speech, translate_text, speak_input, speak_output and   *)
(* view_history and the widgets of main().  Strings the code computes on   *)
(* (language codes, texts) are sequences of one-character strings, so that *)
(* str.split and str.strip are computed and not assumed.                   *)
(*                                                                         *)
(* Two observation variables describe the last rerun of the script:        *)
(*   outcome  the message the handler showed (st.error / st.warning / ...) *)
(*   calls    the upstream calls the handler made, in order, each with the *)
(*            response it got.                                             *)
(***************************************************************************)
EXTENDS Integers, Sequences, FiniteSets, TLC

VARIABLES input_lang, target_lang, input_text, translated_text,
          detected_lang_code, translation_history, audio_data, audio_lang,
          outcome, calls

vars == <<input_lang, target_lang, input_text, translated_text,
          detected_lang_code, translation_history, audio_data, audio_lang,
          outcome, calls>>

session == <<input_text, translated_text, detected_lang_code,
             translation_history, audio_data, audio_lang>>

(* ------------------------------ bounds -------------------------------- *)
\* longest text the user types into a text area
MaxLen == 2
\* longest history explored
MaxHistory == 2

(* ------------------------- strings and tables ------------------------- *)
Auto == <<"a", "u", "t", "o">>
En   == <<"e", "n">>
Te   == <<"t", "e">>
TeIN == <<"t", "e", "-", "I", "N">>
ZhCn == <<"z", "h", "-", "c", "n">>
ZhCN == <<"z", "h", "-", "C", "N">>
\* the value of a session key that was never assigned / None
None == << >>

\* googletrans.LANGUAGES, three of its entries: code -> lower-case name
LANGUAGES == (En :> "english") @@ (Te :> "telugu") @@ (ZhCn :> "chinese (simplified)")

\* gtts.lang.tts_langs(): the codes the synthesis service accepts
TTS_SUPPORTED == {En, Te, ZhCN}

\* str.title() on the names of the table and on the default "Unknown"
Title(name) ==
    CASE name = "english" -> "English"
      [] name = "telugu" -> "Telugu"
      [] name = "chinese (simplified)" -> "Chinese (Simplified)"
      [] name = "Unknown" -> "Unknown"

\* LANGUAGES.get(code, default)
LanguagesGet(code, default) ==
    IF code \in DOMAIN LANGUAGES THEN LANGUAGES[code] ELSE default

\* {name.title(): code for code, name in LANGUAGES.items()}
LANG_NAME_TO_CODE ==
    [n \in {Title(LANGUAGES[c]) : c \in DOMAIN LANGUAGES} |->
        CHOOSE c \in DOMAIN LANGUAGES : Title(LANGUAGES[c]) = n]

\* LANG_NAME_TO_CODE.get(name, "auto")
LangNameToCodeGet(name) ==
    IF name \in DOMAIN LANG_NAME_TO_CODE THEN LANG_NAME_TO_CODE[name] ELSE Auto

\* the options of the two select boxes
InputLangOptions == {"Auto Detect"} \cup DOMAIN LANG_NAME_TO_CODE
TargetLangOptions == DOMAIN LANG_NAME_TO_CODE

\* s.split("-")[0]: s up to its first '-', all of s when it has none
SplitFirst(s) ==
    LET dashes == {i \in 1..Len(s) : s[i] = "-"}
    IN  IF dashes = {} THEN s
        ELSE SubSeq(s, 1, (CHOOSE i \in dashes : \A j \in dashes : i <= j) - 1)

\* s.strip(): s without its leading and trailing whitespace
RECURSIVE LStrip(_)
LStrip(s) == IF s # << >> /\ Head(s) = " " THEN LStrip(Tail(s)) ELSE s
RECURSIVE RStrip(_)
RStrip(s) ==
    IF s # << >> /\ s[Len(s)] = " " THEN RStrip(SubSeq(s, 1, Len(s) - 1)) ELSE s
\* Strip gone wrong: the text is used as typed
StripNothing(s) == s
Strip(s) == RStrip(LStrip(s))

(* ------------------------- inputs and responses ----------------------- *)
Chars == {" ", "a"}
RECURSIVE SeqsUpTo(_)
SeqsUpTo(n) ==
    IF n = 0 THEN {<< >>}
    ELSE LET shorter == SeqsUpTo(n - 1)
         IN  shorter \cup {Append(s, c) : s \in {t \in shorter : Len(t) = n - 1}, c \in Chars}
\* what the user can type into a text area
UserTexts == SeqsUpTo(MaxLen)

\* recognizer.listen: an audio sample, or one of its exceptions
CaptureResponses == {"ok", "WaitTimeoutError", "OSError"}
\* recognize_google: a transcript, or one of its exceptions
RecTexts == {<<"a">>, <<"a", "a">>}
RecErrors == {"UnknownValueError", "RequestError", "Exception"}
RecResponses == {<<"ok", t>> : t \in RecTexts} \cup {<<e, None>> : e \in RecErrors}
\* Translator.detect: a language code, or an exception
DetectCodes == {En, ZhCN}
DetectResponses == {<<"ok", c>> : c \in DetectCodes} \cup {<<"Exception", None>>}
\* Translator.translate: text and the source code the service reports, or an exception
TransTexts == {<<"a">>}
SrcCodes == {En, ZhCN}
TransResponses ==
    {<<"ok", t, s>> : t \in TransTexts, s \in SrcCodes} \cup {<<"Exception", None, None>>}
\* gTTS(...).write_to_fp
TtsResponses == {"ok", "gTTSError"}
\* datetime.now().strftime(...)
Timestamps == {"2026-01-01 10:00:00"}

Init ==
    /\ input_lang = "Auto Detect"
    /\ target_lang = "English"
    /\ input_text = << >>
    /\ translated_text = << >>
    /\ detected_lang_code = Auto
    /\ translation_history = << >>
    /\ audio_data = None
    /\ audio_lang = None
    /\ outcome = "none"
    /\ calls = << >>

(* ------------------------------ widgets ------------------------------- *)
\* a rerun in which only a widget changed: no handler runs, no message shows
Rerun == outcome' = "none" /\ calls' = << >>

SelectInputLang ==
    \E n \in InputLangOptions :
        /\ input_lang' = n
        /\ Rerun
        /\ UNCHANGED <<target_lang, session>>

SelectTargetLang ==
    \E n \in TargetLangOptions :
        /\ target_lang' = n
        /\ Rerun
        /\ UNCHANGED <<input_lang, session>>

EditInputText ==
    \E t \in UserTexts :
        /\ input_text' = t
        /\ Rerun
        /\ UNCHANGED <<input_lang, target_lang, translated_text, detected_lang_code,
                       translation_history, audio_data, audio_lang>>

EditTranslatedText ==
    \E t \in UserTexts :
        /\ translated_text' = t
        /\ Rerun
        /\ UNCHANGED <<input_lang, target_lang, input_text, detected_lang_code,
                       translation_history, audio_data, audio_lang>>

(* --------------------------- listen_speech ---------------------------- *)
\* one upstream call of the last rerun: operation, argument, response
Call(op, arg, resp) == <<op, arg, resp>>

\* the except clauses of listen_speech: which message an exception shows
ExceptOutcome(exc) ==
    CASE exc = "WaitTimeoutError" -> "NoSpeechDetected"
      [] exc = "UnknownValueError" -> "UnintelligibleAudio"
      [] exc = "RequestError" -> "ServiceUnavailable"
      [] OTHER -> "Error"

\* lang_code of the selection: "auto" for Auto Detect and for unknown names
SelectedLangCode(selected_input_lang) ==
    IF selected_input_lang = "Auto Detect" THEN Auto
    ELSE LangNameToCodeGet(selected_input_lang)

\* the code the recognizer is called with: "te" is remapped to "te-IN"
RecognitionLanguage(lang_code) == IF lang_code = Te THEN TeIN ELSE lang_code

\* BaseCode gone wrong: the split is forgotten
BaseCodeUnsplit(lang_code) == lang_code

\* the code stored after an explicit recognition: lang_code.split("-")[0]
BaseCode(lang_code) == SplitFirst(lang_code)

\* DetectedCode gone wrong: lang_code ("auto") is stored, not detected.lang
DetectedCodeSentinel(detected) == Auto

\* the code stored in Auto mode: detected.lang
DetectedCode(detected) == detected[2]

\* SecondPassText gone wrong: no fallback to the raw transcript
SecondPassTextNoFallback(raw_text, resp) == resp[2]

\* try: text = recognize_google(audio, language=...)  except Exception: text = raw_text
SecondPassText(raw_text, resp) == IF resp[1] = "ok" THEN resp[2] ELSE raw_text

\* the handler ended in an except clause: a message, and the session as it was
ListenFailed(exc, made) ==
    /\ outcome' = ExceptOutcome(exc)
    /\ calls' = made
    /\ UNCHANGED <<input_lang, target_lang, session>>

\* the handler reached its last lines: text and code are stored
ListenStored(text, code, made) ==
    /\ input_text' = text
    /\ detected_lang_code' = code
    /\ outcome' = "SpeechCaptured"
    /\ calls' = made
    /\ UNCHANGED <<input_lang, target_lang, translated_text, translation_history,
                   audio_data, audio_lang>>

\* CaptureFailed gone wrong: the except clause also clears the input text
CaptureFailedClearsInput(cap) ==
    /\ outcome' = ExceptOutcome(cap)
    /\ calls' = <<<<"listen", None, <<cap, None>>>>>>
    /\ input_text' = << >>
    /\ UNCHANGED <<input_lang, target_lang, translated_text, detected_lang_code,
                   translation_history, audio_data, audio_lang>>

\* recognizer.listen raised: nothing after it runs
CaptureFailed(cap) == ListenFailed(cap, <<Call("listen", None, <<cap, None>>)>>)

\* ListenExplicit gone wrong: a failed recognition is tried a second time
ListenExplicitRetry(lang_code, captured) ==
    LET language == IF lang_code = Te THEN TeIN ELSE lang_code IN
    \E r \in RecResponses :
        LET made == Append(captured, <<"recognize", language, r>>) IN
        IF r[1] = "ok"
        THEN ListenStored(r[2], SplitFirst(language), made)
        ELSE \E again \in RecResponses :
            LET made2 == Append(made, <<"recognize", language, again>>) IN
            IF again[1] = "ok"
            THEN ListenStored(again[2], SplitFirst(language), made2)
            ELSE ListenFailed(again[1], made2)

\* if lang_code != "auto": one recognition with the selected code
ListenExplicit(lang_code, captured) ==
    LET language == RecognitionLanguage(lang_code) IN
    \E r \in RecResponses :
        LET made == Append(captured, Call("recognize", language, r)) IN
        IF r[1] = "ok"
        THEN ListenStored(r[2], BaseCode(language), made)
        ELSE ListenFailed(r[1], made)

\* else: recognition without a language, detection, recognition with the detected code
ListenAuto(captured) ==
    \E r1 \in RecResponses :
        LET made1 == Append(captured, Call("recognize", None, r1)) IN
        IF r1[1] # "ok"
        THEN ListenFailed(r1[1], made1)
        ELSE \E d \in DetectResponses :
            LET made2 == Append(made1, Call("detect", r1[2], d)) IN
            IF d[1] # "ok"
            THEN ListenFailed(d[1], made2)
            ELSE \E r2 \in RecResponses :
                ListenStored(SecondPassText(r1[2], r2), DetectedCode(d),
                             Append(made2, Call("recognize", DetectedCode(d), r2)))

listen_speech ==
    \E cap \in CaptureResponses :
        IF cap # "ok"
        THEN CaptureFailed(cap)
        ELSE LET lang_code == SelectedLangCode(input_lang)
                 captured == <<Call("listen", None, <<"ok", None>>)>>
             IN  IF lang_code # Auto
                 THEN ListenExplicit(lang_code, captured)
                 ELSE ListenAuto(captured)

(* --------------------------- translate_text --------------------------- *)
\* HistoryAppend gone wrong: the list is rebuilt with the new entry only
HistoryKeepLast(history, entry) == <<entry>>

\* translation_history.append(entry)
HistoryAppend(history, entry) == Append(history, entry)

\* HistoryEntry gone wrong: the source label comes from the code sent in the request
HistoryEntryRequested(timestamp, result_src, requested_src, dest_code, text, result_text) ==
    <<timestamp, Title(LanguagesGet(requested_src, "Unknown")),
      Title(LanguagesGet(dest_code, "Unknown")), text, result_text>>

\* [timestamp, src_lang_name, tgt_lang_name, text, result.text]
HistoryEntry(timestamp, result_src, requested_src, dest_code, text, result_text) ==
    <<timestamp, Title(LanguagesGet(result_src, "Unknown")),
      Title(LanguagesGet(dest_code, "Unknown")), text, result_text>>

TranslateRefused(message) ==
    /\ outcome' = message
    /\ calls' = << >>
    /\ UNCHANGED <<input_lang, target_lang, session>>

translate_text ==
    LET text == Strip(input_text) IN
    IF text = << >>
    THEN TranslateRefused("EmptyInput")
    ELSE IF target_lang = ""
    THEN TranslateRefused("NoTargetSelected")
    ELSE LET dest_code == LANG_NAME_TO_CODE[target_lang]
             src == detected_lang_code
         IN  \E res \in TransResponses :
                 /\ calls' = <<Call("translate", <<text, src, dest_code>>, res)>>
                 /\ IF res[1] = "ok"
                    THEN /\ Len(translation_history) < MaxHistory
                         /\ translated_text' = res[2]
                         /\ \E now \in Timestamps :
                               translation_history' =
                                   HistoryAppend(translation_history,
                                       HistoryEntry(now, res[3], src, dest_code, text, res[2]))
                         /\ outcome' = "Translated"
                         /\ UNCHANGED <<input_lang, target_lang, input_text,
                                        detected_lang_code, audio_data, audio_lang>>
                    ELSE /\ outcome' = "TranslationServiceError"
                         /\ UNCHANGED <<input_lang, target_lang, session>>

(* ---------------------------- text to speech -------------------------- *)
\* TtsSupported gone wrong: the translator's table is consulted
TtsSupportedByTranslator(lang_code) == lang_code \in DOMAIN LANGUAGES

\* lang_code in TTS_SUPPORTED
TtsSupported(lang_code) == lang_code \in TTS_SUPPORTED

speak_text(text, lang_code) ==
    IF TtsSupported(lang_code)
    THEN \E r \in TtsResponses :
             /\ calls' = <<Call("gTTS", <<text, lang_code>>, <<r, None>>)>>
             /\ IF r = "ok"
                THEN /\ audio_data' = <<text, lang_code>>
                     /\ audio_lang' = lang_code
                     /\ outcome' = "AudioStored"
                     /\ UNCHANGED <<input_lang, target_lang, input_text, translated_text,
                                    detected_lang_code, translation_history>>
                ELSE /\ outcome' = "SynthesisServiceError"
                     /\ UNCHANGED <<input_lang, target_lang, session>>
    ELSE /\ outcome' = "UnsupportedSynthesisLanguage"
         /\ calls' = << >>
         /\ UNCHANGED <<input_lang, target_lang, session>>

speak_input ==
    LET text == Strip(input_text) IN
    IF text # << >> /\ TtsSupported(detected_lang_code)
    THEN speak_text(text, detected_lang_code)
    ELSE /\ outcome' = "NoInputOrUnsupported"
         /\ calls' = << >>
         /\ UNCHANGED <<input_lang, target_lang, session>>

speak_output ==
    LET text == Strip(translated_text) IN
    IF text # << >> /\ target_lang # ""
    THEN speak_text(text, LANG_NAME_TO_CODE[target_lang])
    ELSE /\ outcome' = "NoTranslatedText"
         /\ calls' = << >>
         /\ UNCHANGED <<input_lang, target_lang, session>>

(* ------------------------------- history ------------------------------ *)
view_history ==
    /\ outcome' = IF translation_history = << >> THEN "NoTranslationsYet" ELSE "HistoryShown"
    /\ calls' = << >>
    /\ UNCHANGED <<input_lang, target_lang, session>>

(* ---------------------------- specification --------------------------- *)
Next ==
    \/ SelectInputLang
    \/ SelectTargetLang
    \/ EditInputText
    \/ EditTranslatedText
    \/ listen_speech
    \/ translate_text
    \/ speak_input
    \/ speak_output
    \/ view_history

Spec == Init /\ [][Next]_vars

\* a session in which the user picks the input language, types and speaks
NextSpeak ==
    \/ SelectInputLang
    \/ EditInputText
    \/ listen_speech

SpecSpeak == Init /\ [][NextSpeak]_vars

\* a session in which the user types, speaks (Auto Detect) and translates into English
NextTranslate ==
    \/ EditInputText
    \/ listen_speech
    \/ translate_text

SpecTranslate == Init /\ [][NextTranslate]_vars

\* a session in which the user picks the target language, speaks (Auto Detect) and translates
NextTarget ==
    \/ SelectTargetLang
    \/ listen_speech
    \/ translate_text

SpecTarget == Init /\ [][NextTarget]_vars

\* a session in which the user picks both languages, speaks, types the translated
\* text and asks for audio
NextSynth ==
    \/ SelectInputLang
    \/ SelectTargetLang
    \/ EditTranslatedText
    \/ listen_speech
    \/ speak_input
    \/ speak_output

SpecSynth == Init /\ [][NextSynth]_vars

\* a session made of the five buttons only
NextButtons ==
    \/ listen_speech
    \/ translate_text
    \/ speak_input
    \/ speak_output
    \/ view_history

SpecButtons == Init /\ [][NextButtons]_vars

(* ------------------------ reading the last rerun ----------------------- *)
Op(c) == c[1]
Arg(c) == c[2]
Resp(c) == c[3]
Succeeded(c) == c[3][1] = "ok"

\* the last rerun ran listen_speech
ListenRan == calls # << >> /\ Op(calls[1]) = "listen"
\* ... and the microphone delivered an audio sample
Captured == ListenRan /\ Succeeded(calls[1])
\* the selection the last rerun saw maps to a code
ExplicitSelection == input_lang \in DOMAIN LANG_NAME_TO_CODE

NoDash(s) == \A i \in 1..Len(s) : s[i] # "-"
\* stored is code cut at its first '-'
CutAtFirstDash(stored, code) ==
    /\ NoDash(stored)
    /\ Len(stored) <= Len(code)
    /\ SubSeq(code, 1, Len(stored)) = stored
    /\ Len(stored) < Len(code) => code[Len(stored) + 1] = "-"

\* empty or whitespace only
Blank(s) == \A i \in 1..Len(s) : s[i] = " "

IsPrefix(s, t) == Len(s) <= Len(t) /\ SubSeq(t, 1, Len(s)) = s

(* -------------------------------- claims ------------------------------ *)
\* C1: after a Speak action with an explicit selection in which recognition
\* succeeded, the recognizer was called once with the selected code ("te"
\* remapped to "te-IN") and the stored code is the selected code cut at its
\* first '-', so it carries no country suffix.
C1_ExplicitStoresBaseCode ==
    (outcome = "SpeechCaptured" /\ ExplicitSelection) =>
        LET code == LANG_NAME_TO_CODE[input_lang] IN
        /\ Op(calls[2]) = "recognize"
        /\ Arg(calls[2]) = (IF code = Te THEN TeIN ELSE code)
        /\ CutAtFirstDash(detected_lang_code, code)

C1_Witness ==
    /\ outcome = "SpeechCaptured"
    /\ input_lang = "Telugu"
    /\ Arg(calls[2]) = TeIN
    /\ detected_lang_code = Te

\* C2: in Auto mode, when the first recognition and the detection both
\* succeed, the Speak action completes and stores the code the detection
\* returned; after every completed Speak action the stored code is not "auto".
C2_AutoStoresDetectedCode ==
    /\ (ListenRan /\ Len(calls) >= 3 /\ Op(calls[3]) = "detect" /\ Succeeded(calls[3])) =>
           /\ outcome = "SpeechCaptured"
           /\ detected_lang_code = Resp(calls[3])[2]
    /\ outcome = "SpeechCaptured" => detected_lang_code # Auto

C2_Witness ==
    /\ outcome = "SpeechCaptured"
    /\ input_lang = "Auto Detect"
    /\ Resp(calls[3]) = <<"ok", ZhCN>>
    /\ detected_lang_code = ZhCN

\* C3: in Auto mode, when the second recognition fails, whatever the
\* exception, the Speak action completes: the input text is the transcript of
\* the first recognition and the stored code is the detected code.
C3_SecondPassFallback ==
    (ListenRan /\ Len(calls) = 4 /\ ~Succeeded(calls[4])) =>
        /\ outcome = "SpeechCaptured"
        /\ input_text = Resp(calls[2])[2]
        /\ detected_lang_code = Resp(calls[3])[2]

C3_Witness ==
    /\ ListenRan /\ Len(calls) = 4
    /\ Resp(calls[4])[1] = "RequestError"
    /\ input_text = <<"a", "a">>
    /\ outcome = "SpeechCaptured"

\* C9: a Speak action that captured audio makes at most two recognition
\* calls and repeats none.  Explicit selection: exactly one recognition call,
\* with the (remapped) selected code, and no detection call.  Auto mode: one
\* recognition call without a language; a detection call on its transcript if
\* and only if it succeeded; a second recognition call with the detected code
\* if and only if the detection succeeded; nothing after that.
RecognitionCalls == {i \in 1..Len(calls) : Op(calls[i]) = "recognize"}

C9_AtMostTwoRecognitions ==
    /\ ListenRan => Cardinality(RecognitionCalls) <= 2
    /\ (Captured /\ ExplicitSelection) =>
           LET code == LANG_NAME_TO_CODE[input_lang] IN
           /\ Len(calls) = 2
           /\ Op(calls[2]) = "recognize"
           /\ Arg(calls[2]) = (IF code = Te THEN TeIN ELSE code)
    /\ (Captured /\ input_lang = "Auto Detect") =>
           /\ Len(calls) \in 2..4
           /\ Op(calls[2]) = "recognize" /\ Arg(calls[2]) = None
           /\ Len(calls) >= 3 <=> Succeeded(calls[2])
           /\ Len(calls) >= 3 =>
                  /\ Op(calls[3]) = "detect"
                  /\ Arg(calls[3]) = Resp(calls[2])[2]
                  /\ Len(calls) = 4 <=> Succeeded(calls[3])
           /\ Len(calls) = 4 =>
                  /\ Op(calls[4]) = "recognize"
                  /\ Arg(calls[4]) = Resp(calls[3])[2]

C9_Witness ==
    /\ Captured /\ input_lang = "Auto Detect"
    /\ Len(calls) = 4
    /\ Succeeded(calls[4])
    /\ Arg(calls[4]) = En

\* C10: after a Speak action with an explicit selection in which recognition
\* succeeded, the stored code is a key of LANGUAGES.
C10_StoredCodeIsLanguageKey ==
    (outcome = "SpeechCaptured" /\ ExplicitSelection) =>
        detected_lang_code \in DOMAIN LANGUAGES

\* C4: a Translate action on an input text that is empty or whitespace only
\* shows the empty-input warning, calls no service, and leaves the history
\* and the translated text as they were.
C4_BlankInputRefused ==
    [][(translate_text /\ Blank(input_text)) =>
           /\ outcome' = "EmptyInput"
           /\ calls' = << >>
           /\ UNCHANGED <<translation_history, translated_text>>]_vars

C4_Witness ==
    /\ outcome = "EmptyInput"
    /\ input_text = <<" ", " ">>
    /\ detected_lang_code = ZhCN
    /\ translation_history # << >>

\* C5: a Translate action whose translation call succeeds appends exactly one
\* record; its source label is the name of the source code in the response
\* (not of the code that was sent), its target label is the selected target,
\* its input text is the text that was sent and its output text is the text
\* in the response.
C5_RecordUsesReportedSource ==
    [][(translate_text /\ calls' # << >> /\ Succeeded(calls'[1])) =>
           LET sent == Arg(calls'[1])
               resp == Resp(calls'[1])
               n == Len(translation_history)
               record == translation_history'[n + 1]
           IN  /\ Len(translation_history') = n + 1
               /\ SubSeq(translation_history', 1, n) = translation_history
               /\ record[2] = Title(LanguagesGet(resp[3], "Unknown"))
               /\ record[3] = target_lang
               /\ record[4] = sent[1] /\ sent[1] = Strip(input_text)
               /\ record[5] = resp[2]
               /\ sent[2] = detected_lang_code
               /\ outcome' = "Translated"]_vars

C5_Witness ==
    /\ outcome = "Translated"
    /\ detected_lang_code = ZhCN
    /\ target_lang = "Telugu"
    /\ Resp(calls[1])[3] = En
    /\ translation_history[Len(translation_history)][2] = "English"

\* C6: a Speak Input or Speak Output action whose language code is not in
\* TTS_SUPPORTED makes no synthesis call and leaves the stored audio and its
\* language as they were; Speak Input shows its no-input-or-unsupported
\* message, and Speak Output, which reaches speak_text when there is text,
\* shows the unsupported-language warning.
SynthesisUntouched == calls' = << >> /\ UNCHANGED <<audio_data, audio_lang>>

C6_UnsupportedNeverSynthesized ==
    [][/\ (speak_input /\ detected_lang_code \notin TTS_SUPPORTED) =>
              /\ SynthesisUntouched
              /\ outcome' = "NoInputOrUnsupported"
       /\ (speak_output /\ LANG_NAME_TO_CODE[target_lang] \notin TTS_SUPPORTED) =>
              /\ SynthesisUntouched
              /\ ~Blank(translated_text) => outcome' = "UnsupportedSynthesisLanguage"]_vars

C6_Witness ==
    /\ outcome = "UnsupportedSynthesisLanguage"
    /\ target_lang = "Chinese (Simplified)"
    /\ audio_data # None

\* C7: a Speak action whose capture times out shows the no-speech message,
\* makes no call after the capture, and leaves the input text, the stored
\* code, the translated text and the history as they were.
C7_TimeoutLeavesState ==
    [][(calls' # << >> /\ Op(calls'[1]) = "listen"
            /\ Resp(calls'[1])[1] = "WaitTimeoutError") =>
           /\ outcome' = "NoSpeechDetected"
           /\ Len(calls') = 1
           /\ UNCHANGED <<input_text, detected_lang_code, translated_text,
                          translation_history>>]_vars

C7_Witness ==
    /\ outcome = "NoSpeechDetected"
    /\ input_text # << >>
    /\ detected_lang_code # Auto
    /\ translated_text # << >>
    /\ translation_history # << >>

\* C8: in every step the old history is a prefix of the new one, and the
\* history changes only by one record appended by a successful Translate.
C8_HistoryAppendOnly ==
    [][/\ IsPrefix(translation_history, translation_history')
       /\ translation_history' # translation_history =>
              /\ Len(translation_history') = Len(translation_history) + 1
              /\ outcome' = "Translated"]_vars

C8_Witness ==
    /\ Len(translation_history) >= 2
    /\ outcome = "HistoryShown"

====
